---- MODULE Spec2Model ----
(***************************************************************************)
(* The engagement leaderboard pipeline of analytics.py:                    *)
(* calculate_engagement -> aggregate_by_day -> identify_daily_winners ->   *)
(* aggregate_overall -> add_comparison_data -> add_follower_data ->        *)
(* rank_pages -> column selection, as run by create_leaderboard, and the   *)
(* Streamlit application of app.py that loads the three files, maps their  *)
(* columns and calls create_leaderboard.                                   *)
(*                                                                         *)
(* A DataFrame is a sequence of rows.  A scalar read from a spreadsheet is *)
(* a cell: a number, a text or NaN (an empty cell, or the hole a left join *)
(* leaves).  Numbers are integers; a percentage is an exact fraction.      *)
(* A text is a sequence of ASCII codes (48..57 are the digits, 120 is 'x'), *)
(* and so is a page identifier, so that Python's string order is computed, *)
(* not assumed.                                                            *)
(***************************************************************************)
EXTENDS Integers, Sequences, FiniteSets, TLC

VARIABLES
    performance_df,      \* create_leaderboard's argument: rows of the performance file
    previous_df,         \* create_leaderboard's argument: [columns, rows] of the prior file
    follower_df,         \* create_leaderboard's argument: [columns, rows] of the follower file
    cols,                \* the column-name arguments of create_leaderboard
    pc,                  \* the step create_leaderboard is about to run
    df_with_engagement,  \* result of step 1
    daily_agg,           \* result of step 2
    daily_with_winners,  \* result of step 3
    overall,             \* result of step 4
    with_comparison,     \* result of step 5
    with_followers,      \* result of step 6
    leaderboard,         \* result of step 7, then of step 8
    stored,              \* the upload slots of st.session_state that are not None
    show_mapping,        \* st.session_state.show_mapping
    mappings,            \* the selections of the column mapping widgets
    session_leaderboard, \* st.session_state.leaderboard
    last_load            \* the last call of load_excel_file and what it returned

\* In the application performance_df, previous_df and follower_df are the
\* upload slots of st.session_state, which create_leaderboard is called with.
app_vars == <<stored, show_mapping, mappings, session_leaderboard, last_load>>

vars == <<performance_df, previous_df, follower_df, cols, pc, df_with_engagement,
          daily_agg, daily_with_winners, overall, with_comparison, with_followers,
          leaderboard, app_vars>>

----------------------------------------------------------------------------
(* Bounds of the model *)

MaxRows == 3

----------------------------------------------------------------------------
(* Scalars *)

NumCell(n) == [t |-> "num", n |-> n, s |-> <<>>]
TextCell(s) == [t |-> "text", n |-> 0, s |-> s]
NaN == [t |-> "nan", n |-> 0, s |-> <<>>]

isna(c) == c.t = "nan"

IsDigitString(s) == Len(s) > 0 /\ \A i \in 1..Len(s) : s[i] \in 48..57

RECURSIVE ParseDigits(_)
ParseDigits(s) ==
    IF s = <<>> THEN 0
    ELSE 10 * ParseDigits(SubSeq(s, 1, Len(s) - 1)) + (s[Len(s)] - 48)

\* A text that is no number: pd.to_numeric(errors='raise') and int() raise on it.
to_numeric_unparseable(c) == c.t = "text" /\ ~IsDigitString(c.s)

\* pd.to_numeric(series, errors='raise'): raises on the first text that is no number.
to_numeric_raise(series) ==
    [raised |-> \E i \in 1..Len(series) : to_numeric_unparseable(series[i]),
     values |-> [i \in 1..Len(series) |->
                   IF series[i].t = "text" /\ IsDigitString(series[i].s)
                   THEN NumCell(ParseDigits(series[i].s)) ELSE series[i]]]

\* pd.to_numeric(series, errors='coerce'): a number stays, a text that parses
\* becomes its number, anything else becomes NaN; never raises.
to_numeric(series) ==
    [raised |-> FALSE,
     values |-> [i \in 1..Len(series) |->
                   CASE series[i].t = "num" -> series[i]
                     [] series[i].t = "text" /\ IsDigitString(series[i].s)
                            -> NumCell(ParseDigits(series[i].s))
                     [] OTHER -> NaN]]

\* Series.fillna(0)
fillna0(series) == [i \in 1..Len(series) |-> IF isna(series[i]) THEN NumCell(0) ELSE series[i]]

Column(df, name) == [i \in 1..Len(df) |-> df[i][name]]

\* Python's str order: lexicographic by character code.
RECURSIVE LexLess(_, _)
LexLess(a, b) ==
    IF b = <<>> THEN FALSE
    ELSE IF a = <<>> THEN TRUE
    ELSE IF a[1] # b[1] THEN a[1] < b[1]
    ELSE LexLess(Tail(a), Tail(b))

RECURSIVE SumSeq(_)
SumSeq(s) == IF s = <<>> THEN 0 ELSE s[1] + SumSeq(Tail(s))

\* The distinct elements of a sequence, in order of first appearance.
RECURSIVE Distinct(_)
Distinct(s) ==
    IF s = <<>> THEN <<>>
    ELSE LET init == Distinct(SubSeq(s, 1, Len(s) - 1))
             last == s[Len(s)]
         IN IF \E i \in 1..Len(init) : init[i] = last THEN init ELSE Append(init, last)

----------------------------------------------------------------------------
(* Step 1: calculate_engagement *)

WeightLikes == 1
WeightComments == 2
WeightShares == 3

calculate_engagement_unweighted(df) ==
    LET likes == to_numeric(Column(df, "likes"))
        comments == to_numeric(Column(df, "comments"))
        shares == to_numeric(Column(df, "shares"))
    IN [raised |-> likes.raised \/ comments.raised \/ shares.raised,
        df |-> [i \in 1..Len(df) |->
                 [page |-> df[i].page, date |-> df[i].date,
                  likes |-> fillna0(likes.values)[i].n,
                  comments |-> fillna0(comments.values)[i].n,
                  shares |-> fillna0(shares.values)[i].n,
                  engagement |-> fillna0(likes.values)[i].n
                                   + fillna0(comments.values)[i].n
                                   + fillna0(shares.values)[i].n]]]

calculate_engagement(df) ==
    LET likes == to_numeric(Column(df, "likes"))
        comments == to_numeric(Column(df, "comments"))
        shares == to_numeric(Column(df, "shares"))
    IN [raised |-> likes.raised \/ comments.raised \/ shares.raised,
        df |-> [i \in 1..Len(df) |->
                 [page |-> df[i].page, date |-> df[i].date,
                  likes |-> fillna0(likes.values)[i].n,
                  comments |-> fillna0(comments.values)[i].n,
                  shares |-> fillna0(shares.values)[i].n,
                  engagement |-> WeightLikes * fillna0(likes.values)[i].n
                                   + WeightComments * fillna0(comments.values)[i].n
                                   + WeightShares * fillna0(shares.values)[i].n]]]

----------------------------------------------------------------------------
(* Step 2: aggregate_by_day *)

NaT == 0

\* A variant that keeps the time of day in the grouping key.
date_only_with_time(cell) == IF cell.ok THEN 2 * cell.day + cell.tod ELSE NaT

\* pd.to_datetime(errors='coerce') followed by .dt.date: the calendar day of a
\* timestamp that parses (its time of day is dropped), NaT otherwise.
date_only(cell) == IF cell.ok THEN cell.day ELSE NaT

\* A variant that counts the rows whose date parses, whatever the column.
count_dated(rows, name) == Len(SelectSeq(rows, LAMBDA r : date_only(r.date) # NaT))

\* The aggregation 'count': the rows of a group whose cell in the column is
\* not null.  A scored row has a number in every column but the date.
count(rows, name) ==
    Len(SelectSeq(rows, LAMBDA r : IF name = "date" THEN date_only(r.date) # NaT ELSE TRUE))

\* The order of group keys: a key is the tuple of the values of the columns
\* grouped by, the page alone or the page and the date.
KeyLess(a, b) ==
    \/ LexLess(a[1], b[1])
    \/ a[1] = b[1] /\ Len(a) > 1 /\ a[2] < b[2]

\* The group keys of DataFrame.groupby(sort=False): in order of first appearance.
GroupKeysUnsorted(keys) == Distinct(keys)

\* The group keys of DataFrame.groupby (sort=True, the default): sorted.
GroupKeys(keys) == SortSeq(Distinct(keys), KeyLess)

\* A variant without grouping: one record per dated row.
aggregate_by_day_per_row(df) ==
    LET kept == SelectSeq(df, LAMBDA r : date_only(r.date) # NaT)
    IN [g \in 1..Len(kept) |->
          [page |-> kept[g].page,
           date |-> date_only(kept[g].date),
           total_engagement |-> kept[g].engagement,
           post_count |-> 1]]

aggregate_by_day(df) ==
    LET kept == SelectSeq(df, LAMBDA r : date_only(r.date) # NaT)  \* dropna=True
        keys == GroupKeys([i \in 1..Len(kept) |-> <<kept[i].page, date_only(kept[i].date)>>])
        Group(k) == SelectSeq(kept, LAMBDA r : r.page = k[1] /\ date_only(r.date) = k[2])
    IN [g \in 1..Len(keys) |->
          [page |-> keys[g][1],
           date |-> keys[g][2],
           total_engagement |-> SumSeq(Column(Group(keys[g]), "engagement")),
           post_count |-> count(Group(keys[g]), "date")]]

----------------------------------------------------------------------------
(* Step 3: identify_daily_winners *)

MaxOf(S) == CHOOSE m \in S : \A x \in S : x <= m
MinOf(S) == CHOOSE m \in S : \A x \in S : m <= x

\* A variant that returns the first row label holding the minimum.
idxmin(df, idxs) ==
    MinOf({i \in idxs : df[i].total_engagement = MinOf({df[j].total_engagement : j \in idxs})})

\* SeriesGroupBy.idxmax for one group: the first row label holding the maximum.
idxmax(df, idxs) ==
    MinOf({i \in idxs : df[i].total_engagement = MaxOf({df[j].total_engagement : j \in idxs})})

\* A variant that marks every row holding its date's maximum.
identify_daily_winners_all(daily_df) ==
    [i \in 1..Len(daily_df) |->
        [page |-> daily_df[i].page, date |-> daily_df[i].date,
         total_engagement |-> daily_df[i].total_engagement,
         post_count |-> daily_df[i].post_count,
         day_won |-> IF \A j \in 1..Len(daily_df) :
                          daily_df[j].date = daily_df[i].date
                             => daily_df[j].total_engagement <= daily_df[i].total_engagement
                     THEN 1 ELSE 0]]

identify_daily_winners(daily_df) ==
    LET dates == {daily_df[i].date : i \in 1..Len(daily_df)} \ {NaT}   \* groupby('date')
        idx_max == {idxmax(daily_df, {i \in 1..Len(daily_df) : daily_df[i].date = d}) : d \in dates}
    IN [i \in 1..Len(daily_df) |->
          [page |-> daily_df[i].page, date |-> daily_df[i].date,
           total_engagement |-> daily_df[i].total_engagement,
           post_count |-> daily_df[i].post_count,
           day_won |-> IF i \in idx_max THEN 1 ELSE 0]]

----------------------------------------------------------------------------
(* Frames with named columns: the results of steps 4 to 8 and the prior and  *)
(* follower datasets.  A row is a function from the column names to values.  *)

Frame(columns, rows) == [columns |-> columns, rows |-> rows]

Range(s) == {s[i] : i \in 1..Len(s)}

HasColumn(df, name) == name \in Range(df.columns)

\* df[name] = values: overwrites the column, or appends it as the last one.
SetColumn(df, name, values) ==
    Frame(IF HasColumn(df, name) THEN df.columns ELSE Append(df.columns, name),
          [i \in 1..Len(df.rows) |->
             [c \in Range(df.columns) \cup {name} |->
                IF c = name THEN values[i] ELSE df.rows[i][c]]])

\* df[names]: the listed columns, in the listed order.
SelectColumns(df, names) ==
    Frame(names, [i \in 1..Len(df.rows) |-> [c \in Range(names) |-> df.rows[i][c]]])

\* df.rename(columns=mapping): mapping is a function on the names it renames.
RenameColumns(df, mapping) ==
    LET New(c) == IF c \in DOMAIN mapping THEN mapping[c] ELSE c
    IN Frame([k \in 1..Len(df.columns) |-> New(df.columns[k])],
             [i \in 1..Len(df.rows) |->
                [n \in {New(c) : c \in Range(df.columns)} |->
                   df.rows[i][CHOOSE c \in Range(df.columns) : New(c) = n]]])

\* A variant that joins inner: a left row without a matching right row is dropped.
merge_inner(left, right, key, ls, rs) ==
    LET overlap == (Range(left.columns) \cap Range(right.columns)) \ {key}
        LName(c) == IF c \in overlap THEN c \o ls ELSE c
        RName(c) == IF c \in overlap THEN c \o rs ELSE c
        rcols == SelectSeq(right.columns, LAMBDA c : c # key)
        columns == [k \in 1..Len(left.columns) |-> LName(left.columns[k])]
                      \o [k \in 1..Len(rcols) |-> RName(rcols[k])]
        Joined(l, r) ==
            [n \in Range(columns) |->
               IF \E c \in Range(left.columns) : LName(c) = n
               THEN l[CHOOSE c \in Range(left.columns) : LName(c) = n]
               ELSE r[CHOOSE c \in Range(rcols) : RName(c) = n]]
        Matches(l) == SelectSeq(right.rows, LAMBDA r : r[key] = l[key])
        RowsFor(l) == [m \in 1..Len(Matches(l)) |-> Joined(l, Matches(l)[m])]
        RECURSIVE Concat(_)
        Concat(k) == IF k = 0 THEN <<>> ELSE Concat(k - 1) \o RowsFor(left.rows[k])
    IN Frame(columns, Concat(Len(left.rows)))

\* left.merge(right, on=key, how='left', suffixes=(ls, rs)): every left row in
\* order, once per matching right row in the right frame's order, or once with
\* NaN in the right columns when no right row matches.  A column name other
\* than the key that both frames have gets the suffixes.
merge_left(left, right, key, ls, rs) ==
    LET overlap == (Range(left.columns) \cap Range(right.columns)) \ {key}
        LName(c) == IF c \in overlap THEN c \o ls ELSE c
        RName(c) == IF c \in overlap THEN c \o rs ELSE c
        rcols == SelectSeq(right.columns, LAMBDA c : c # key)
        columns == [k \in 1..Len(left.columns) |-> LName(left.columns[k])]
                      \o [k \in 1..Len(rcols) |-> RName(rcols[k])]
        Joined(l, r) ==
            [n \in Range(columns) |->
               IF \E c \in Range(left.columns) : LName(c) = n
               THEN l[CHOOSE c \in Range(left.columns) : LName(c) = n]
               ELSE r[CHOOSE c \in Range(rcols) : RName(c) = n]]
        Hole == [c \in Range(rcols) |-> NaN]
        Matches(l) == SelectSeq(right.rows, LAMBDA r : r[key] = l[key])
        RowsFor(l) == IF Matches(l) = <<>> THEN <<Joined(l, Hole)>>
                      ELSE [m \in 1..Len(Matches(l)) |-> Joined(l, Matches(l)[m])]
        RECURSIVE Concat(_)
        Concat(k) == IF k = 0 THEN <<>> ELSE Concat(k - 1) \o RowsFor(left.rows[k])
    IN Frame(columns, Concat(Len(left.rows)))

----------------------------------------------------------------------------
(* Step 4: aggregate_overall *)

aggregate_overall(df, page_col, daily_winners_df) ==
    LET PageKeys(rows) == GroupKeys([i \in 1..Len(rows) |-> <<rows[i].page>>])
        pages == [g \in 1..Len(PageKeys(df)) |-> PageKeys(df)[g][1]]
        Posts(p) == SelectSeq(df, LAMBDA r : r.page = p)
        Days(p) == SelectSeq(daily_winners_df, LAMBDA r : r.page = p)
        agg == Frame(<<page_col, "total_engagement", "total_posts">>,
                     [g \in 1..Len(pages) |->
                        [c \in {page_col, "total_engagement", "total_posts"} |->
                           CASE c = "total_engagement"
                                    -> SumSeq(Column(Posts(pages[g]), "engagement"))
                             [] c = "total_posts" -> count(Posts(pages[g]), "engagement")
                             [] OTHER -> pages[g]]])
        wpages == [g \in 1..Len(PageKeys(daily_winners_df)) |->
                      PageKeys(daily_winners_df)[g][1]]
        days_won == Frame(<<page_col, "days_won">>,
                          [g \in 1..Len(wpages) |->
                             [c \in {page_col, "days_won"} |->
                                IF c = "days_won"
                                THEN NumCell(SumSeq(Column(Days(wpages[g]), "day_won")))
                                ELSE wpages[g]]])
        merged == merge_left(agg, days_won, page_col, "_x", "_y")
    IN SetColumn(merged, "days_won",
                 [i \in 1..Len(merged.rows) |-> fillna0(Column(merged.rows, "days_won"))[i].n])

----------------------------------------------------------------------------
(* Step 5: calculate_percentage_change and add_comparison_data *)

RECURSIVE Gcd(_, _)
Gcd(a, b) == IF b = 0 THEN a ELSE Gcd(b, a % b)

Abs(x) == IF x < 0 THEN -x ELSE x

\* The fraction n / d (d # 0) in lowest terms with a positive denominator.
Frac(n, d) ==
    LET g == Gcd(Abs(n), Abs(d))
        sgn == IF d < 0 THEN -1 ELSE 1
    IN [num |-> sgn * (n \div g), den |-> sgn * (d \div g)]

PctZero == [num |-> 0, den |-> 1]

\* A variant without the guard on the previous value.
calculate_percentage_change_unguarded(current_value, previous_value) ==
    IF previous_value.t = "text" THEN [raised |-> TRUE, value |-> PctZero]
    ELSE IF previous_value.t = "nan" \/ previous_value.n = 0
         THEN [raised |-> FALSE, value |-> [num |-> 1, den |-> 0]]   \* nan or inf
    ELSE [raised |-> FALSE,
          value |-> Frac((current_value - previous_value.n) * 100, previous_value.n)]

\* current_value is a number, previous_value a cell of the merged frame.
\* Subtracting a text from a number raises TypeError.
calculate_percentage_change(current_value, previous_value) ==
    IF isna(previous_value) \/ (previous_value.t = "num" /\ previous_value.n = 0)
    THEN [raised |-> FALSE, value |-> PctZero]
    ELSE IF previous_value.t = "text" THEN [raised |-> TRUE, value |-> PctZero]
    ELSE [raised |-> FALSE,
          value |-> Frac((current_value - previous_value.n) * 100, previous_value.n)]

\* Series.fillna(0).astype(int) on a column of cells: int() of a text that is
\* no integer raises ValueError.
fillna0_astype_int(series) ==
    [raised |-> \E i \in 1..Len(series) : to_numeric_unparseable(series[i]),
     values |-> [i \in 1..Len(series) |->
                   CASE series[i].t = "num" -> series[i].n
                     [] series[i].t = "text" /\ IsDigitString(series[i].s)
                            -> ParseDigits(series[i].s)
                     [] OTHER -> 0]]

\* The column names the model's datasets and stages use: str.endswith is
\* decided against them.
ColumnNames ==
    {"page", "total_engagement", "total_posts", "days_won", "post_count", "engagement",
     "day_won", "rank", "followers", "posts_change_pct", "engagement_change_pct",
     "last_fortnight_day_won", "last_fortnight_rank", "Page Name", "Posts", ""}

EndsWith(name, suffix) == \E b \in ColumnNames : name = b \o suffix

Zeros(df) == [i \in 1..Len(df.rows) |-> 0]

NoFrame == Frame(<<>>, <<>>)

\* A variant that goes on to the merge when a required column is missing.
MissingCols_none(previous_df_, required_cols) == {}

\* missing_cols of add_comparison_data
MissingCols(previous_df_, required_cols) ==
    {c \in Range(required_cols) : ~HasColumn(previous_df_, c)}

Raised == [raised |-> TRUE, df |-> NoFrame]
Returned(df) == [raised |-> FALSE, df |-> df]

\* The early return of add_comparison_data: the four default columns.
comparison_defaults(df) ==
    SetColumn(SetColumn(SetColumn(SetColumn(df,
        "posts_change_pct", [i \in 1..Len(df.rows) |-> PctZero]),
        "engagement_change_pct", [i \in 1..Len(df.rows) |-> PctZero]),
        "last_fortnight_day_won", Zeros(df)),
        "last_fortnight_rank", Zeros(df))

\* merge_cols of add_comparison_data
previous_merge_cols(previous_df_, page_col, previous_posts_col, previous_engagement_col, previous_day_won_col, previous_rank_col) ==
    <<page_col, previous_posts_col, previous_engagement_col>>
       \o (IF HasColumn(previous_df_, previous_day_won_col)
           THEN <<previous_day_won_col>> ELSE <<>>)
       \o (IF HasColumn(previous_df_, previous_rank_col)
           THEN <<previous_rank_col>> ELSE <<>>)

\* "Rename current columns if needed"
rename_current(merged) ==
    IF HasColumn(merged, "total_posts_current")
    THEN RenameColumns(merged,
             [c \in {"total_posts_current", "total_engagement_current"} |->
                IF c = "total_posts_current" THEN "total_posts" ELSE "total_engagement"])
    ELSE merged

\* A variant that joins inner: a page without a prior record is dropped.
merge_previous_inner(df, previous_df_, page_col, merge_cols) ==
    IF \E c \in Range(merge_cols) : ~HasColumn(previous_df_, c) THEN Raised
    ELSE Returned(rename_current(merge_inner(df, SelectColumns(previous_df_, merge_cols),
                                             page_col, "_current", "_previous")))

\* previous_df[merge_cols] raises KeyError when a listed column is missing.
merge_previous(df, previous_df_, page_col, merge_cols) ==
    IF \E c \in Range(merge_cols) : ~HasColumn(previous_df_, c) THEN Raised
    ELSE Returned(rename_current(merge_left(df, SelectColumns(previous_df_, merge_cols),
                                            page_col, "_current", "_previous")))

\* f'{name}_previous' if it is a column of the comparison, else name
PreviousName(comparison, name) ==
    IF HasColumn(comparison, name \o "_previous") THEN name \o "_previous" ELSE name

\* row.get(name, 0)
RowGet(row, name) == IF name \in DOMAIN row THEN row[name] ELSE NumCell(0)

\* comparison[target] = comparison.apply(calculate_percentage_change(row[current],
\* row.get(previous, 0))): row[current] raises KeyError when the column is missing.
\* r is the outcome of the statements before: nothing runs once one has raised.
percentage_change_column(r, target, current, name) ==
    IF r.raised THEN r
    ELSE IF ~HasColumn(r.df, current) THEN Raised
    ELSE IF \E i \in 1..Len(r.df.rows) :
               calculate_percentage_change(r.df.rows[i][current],
                   RowGet(r.df.rows[i], PreviousName(r.df, name))).raised
         THEN Raised
    ELSE Returned(SetColumn(r.df, target,
             [i \in 1..Len(r.df.rows) |->
                calculate_percentage_change(r.df.rows[i][current],
                    RowGet(r.df.rows[i], PreviousName(r.df, name))).value]))

\* "Add last fortnight day won and rank": the prior column when the prior
\* dataset has it, 0 otherwise.
last_fortnight_column(r, target, present, name) ==
    IF r.raised THEN r
    ELSE IF ~present THEN Returned(SetColumn(r.df, target, Zeros(r.df)))
    ELSE IF fillna0_astype_int(Column(r.df.rows, PreviousName(r.df, name))).raised THEN Raised
    ELSE Returned(SetColumn(r.df, target,
             fillna0_astype_int(Column(r.df.rows, PreviousName(r.df, name))).values))

\* "Drop previous columns"
drop_previous(r) ==
    IF r.raised THEN r
    ELSE Returned(SelectColumns(r.df,
                      SelectSeq(r.df.columns, LAMBDA c : ~EndsWith(c, "_previous"))))

add_comparison_data(current_df, previous_df_, page_col, previous_posts_col, previous_engagement_col, previous_day_won_col, previous_rank_col) ==
    IF MissingCols(previous_df_, <<previous_posts_col, previous_engagement_col>>) # {}
    THEN Returned(comparison_defaults(current_df))
    ELSE
      drop_previous(
        last_fortnight_column(
          last_fortnight_column(
            percentage_change_column(
              percentage_change_column(
                merge_previous(current_df, previous_df_, page_col,
                               previous_merge_cols(previous_df_, page_col, previous_posts_col,
                                                   previous_engagement_col,
                                                   previous_day_won_col, previous_rank_col)),
                "posts_change_pct", "total_posts", previous_posts_col),
              "engagement_change_pct", "total_engagement", previous_engagement_col),
            "last_fortnight_day_won", HasColumn(previous_df_, previous_day_won_col),
            previous_day_won_col),
          "last_fortnight_rank", HasColumn(previous_df_, previous_rank_col),
          previous_rank_col))

----------------------------------------------------------------------------
(* Step 6: add_follower_data *)

\* A variant that keeps only the pages that have a follower entry.
add_follower_data_inner(df, follower_df_, page_col, follower_col) ==
    LET key_error == ~HasColumn(follower_df_, page_col) \/ ~HasColumn(follower_df_, follower_col)
        merged == merge_left(df, SelectColumns(follower_df_, <<page_col, follower_col>>),
                             page_col, "_x", "_y")
        result == RenameColumns(merged, [c \in {follower_col} |-> "followers"])
        kept == Frame(result.columns, SelectSeq(result.rows, LAMBDA r : ~isna(r["followers"])))
        followers == fillna0_astype_int(Column(kept.rows, "followers"))
    IN IF key_error \/ ~HasColumn(result, "followers") \/ followers.raised
       THEN Raised
       ELSE Returned(SetColumn(kept, "followers", followers.values))

add_follower_data(df, follower_df_, page_col, follower_col) ==
    LET key_error == ~HasColumn(follower_df_, page_col) \/ ~HasColumn(follower_df_, follower_col)
        merged == merge_left(df, SelectColumns(follower_df_, <<page_col, follower_col>>),
                             page_col, "_x", "_y")
        result == RenameColumns(merged, [c \in {follower_col} |-> "followers"])
        followers == fillna0_astype_int(Column(result.rows, "followers"))
    IN IF key_error \/ ~HasColumn(result, "followers") \/ followers.raised
       THEN Raised
       ELSE Returned(SetColumn(result, "followers", followers.values))

----------------------------------------------------------------------------
(* Step 7: rank_pages *)

\* A variant that ranks densely: 1 + the number of distinct greater values.
rank_min_dense(values) ==
    [i \in 1..Len(values) |->
        1 + Cardinality({values[j] : j \in {k \in 1..Len(values) : values[k] > values[i]}})]

\* Series.rank(ascending=False, method='min').astype(int)
rank_min(values) ==
    [i \in 1..Len(values) |->
        1 + Cardinality({j \in 1..Len(values) : values[j] > values[i]})]

RowOrders(n) == {p \in [1..n -> 1..n] : \A i, j \in 1..n : p[i] = p[j] => i = j}

\* DataFrame.sort_values(by) with the default kind='quicksort', which is not
\* stable: any arrangement of the rows with non-decreasing keys can come out.
sort_values(df, by) ==
    {Frame(df.columns, [i \in 1..Len(df.rows) |-> df.rows[p[i]]]) :
        p \in {q \in RowOrders(Len(df.rows)) :
                 \A i, j \in 1..Len(df.rows) :
                    i < j => df.rows[q[i]][by] <= df.rows[q[j]][by]}}

\* A variant that also writes the new rank over last_fortnight_rank.
rank_pages_recomputing(df, rank_by) ==
    IF ~HasColumn(df, rank_by) THEN {}
    ELSE sort_values(SetColumn(SetColumn(df, "rank", rank_min(Column(df.rows, rank_by))),
                               "last_fortnight_rank", rank_min(Column(df.rows, rank_by))),
                     "rank")

\* The frames rank_pages can return; none when df lacks the rank_by column.
rank_pages(df, rank_by) ==
    IF ~HasColumn(df, rank_by) THEN {}
    ELSE sort_values(SetColumn(df, "rank", rank_min(Column(df.rows, rank_by))), "rank")

----------------------------------------------------------------------------
(* Step 8: the column order and the display names of create_leaderboard *)

column_order(page_col) ==
    <<"followers", page_col, "total_posts", "total_engagement", "rank", "days_won",
      "posts_change_pct", "engagement_change_pct", "last_fortnight_day_won",
      "last_fortnight_rank">>

display_names(page_col) ==
    [c \in Range(column_order(page_col)) |->
        CASE c = "followers" -> "Follower"
          [] c = page_col -> "Page/Profile/Channel"
          [] c = "total_posts" -> "Post"
          [] c = "total_engagement" -> "Engagement"
          [] c = "rank" -> "Rank"
          [] c = "days_won" -> "Day Won"
          [] c = "posts_change_pct" -> "% Change in Post"
          [] c = "engagement_change_pct" -> "% Change in Engagement"
          [] c = "last_fortnight_day_won" -> "Last Fortnight Day Won"
          [] OTHER -> "Last Fortnight Rank"]

reorder_columns(df, page_col) ==
    LET final_columns == SelectSeq(column_order(page_col), LAMBDA c : HasColumn(df, c))
    IN RenameColumns(SelectColumns(df, final_columns), display_names(page_col))

----------------------------------------------------------------------------
(* create_leaderboard, one action per step *)

\* A variant without df.copy(): the function assigns to the caller's frame.
caller_frame_shared(caller_df, assigned_df) == assigned_df

\* "df = df.copy()": the caller's frame after the function has assigned the
\* coerced columns and the engagement column to df.
caller_frame(caller_df, assigned_df) == caller_df

Step1 ==
    /\ pc = "calculate_engagement"
    /\ LET r == calculate_engagement(performance_df)
       IN IF r.raised
          THEN pc' = "raised" /\ UNCHANGED <<df_with_engagement, performance_df>>
          ELSE /\ pc' = "aggregate_by_day"
               /\ df_with_engagement' = r.df
               /\ performance_df' = caller_frame(performance_df, r.df)
    /\ UNCHANGED <<app_vars, previous_df, follower_df, cols, daily_agg,
                   daily_with_winners, overall, with_comparison, with_followers, leaderboard>>

Step2 ==
    /\ pc = "aggregate_by_day"
    /\ daily_agg' = aggregate_by_day(df_with_engagement)
    /\ pc' = "identify_daily_winners"
    /\ UNCHANGED <<app_vars, performance_df, previous_df, follower_df, cols, df_with_engagement,
                   daily_with_winners, overall, with_comparison, with_followers, leaderboard>>

Step3 ==
    /\ pc = "identify_daily_winners"
    /\ daily_with_winners' = identify_daily_winners(daily_agg)
    /\ pc' = "aggregate_overall"
    /\ UNCHANGED <<app_vars, performance_df, previous_df, follower_df, cols, df_with_engagement,
                   daily_agg, overall, with_comparison, with_followers, leaderboard>>

Step4 ==
    /\ pc = "aggregate_overall"
    /\ overall' = aggregate_overall(df_with_engagement, cols.page_col, daily_with_winners)
    /\ pc' = "add_comparison_data"
    /\ UNCHANGED <<app_vars, performance_df, previous_df, follower_df, cols, df_with_engagement,
                   daily_agg, daily_with_winners, with_comparison, with_followers, leaderboard>>

Step5 ==
    /\ pc = "add_comparison_data"
    /\ LET r == add_comparison_data(overall, previous_df, cols.page_col,
                                    cols.previous_posts_col, cols.previous_engagement_col,
                                    cols.previous_day_won_col, cols.previous_rank_col)
       IN IF r.raised
          THEN pc' = "raised" /\ UNCHANGED with_comparison
          ELSE pc' = "add_follower_data" /\ with_comparison' = r.df
    /\ UNCHANGED <<app_vars, performance_df, previous_df, follower_df, cols, df_with_engagement,
                   daily_agg, daily_with_winners, overall, with_followers, leaderboard>>

Step6 ==
    /\ pc = "add_follower_data"
    /\ LET r == add_follower_data(with_comparison, follower_df, cols.page_col,
                                  cols.follower_col)
       IN IF r.raised
          THEN pc' = "raised" /\ UNCHANGED with_followers
          ELSE pc' = "rank_pages" /\ with_followers' = r.df
    /\ UNCHANGED <<app_vars, performance_df, previous_df, follower_df, cols, df_with_engagement,
                   daily_agg, daily_with_winners, overall, with_comparison, leaderboard>>

Step7 ==
    /\ pc = "rank_pages"
    /\ LET ranked == rank_pages(with_followers, "total_engagement")
       IN IF ranked = {}
          THEN pc' = "raised" /\ UNCHANGED leaderboard
          ELSE pc' = "reorder_columns" /\ leaderboard' \in ranked
    /\ UNCHANGED <<app_vars, performance_df, previous_df, follower_df, cols, df_with_engagement,
                   daily_agg, daily_with_winners, overall, with_comparison, with_followers>>

Step8 ==
    /\ pc = "reorder_columns"
    /\ leaderboard' = reorder_columns(leaderboard, cols.page_col)
    /\ pc' = "done"
    /\ UNCHANGED <<app_vars, performance_df, previous_df, follower_df, cols, df_with_engagement,
                   daily_agg, daily_with_winners, overall, with_comparison, with_followers>>

Next == Step1 \/ Step2 \/ Step3 \/ Step4 \/ Step5 \/ Step6 \/ Step7 \/ Step8

\* create_leaderboard as one function: the results of steps 1 to 4 ...
overall_of(performance, c) ==
    aggregate_overall(calculate_engagement(performance).df, c.page_col,
        identify_daily_winners(aggregate_by_day(calculate_engagement(performance).df)))

\* ... of steps 5 and 6 ...
comparison_of(performance, previous, c) ==
    add_comparison_data(overall_of(performance, c), previous, c.page_col,
                        c.previous_posts_col, c.previous_engagement_col,
                        c.previous_day_won_col, c.previous_rank_col)

followers_of(performance, previous, follower, c) ==
    add_follower_data(comparison_of(performance, previous, c).df, follower, c.page_col,
                      c.follower_col)

\* ... and the leaderboards it can return: none when a step raises, and one
\* for each order in which the sort of step 7 can leave tied rows.
create_leaderboard(performance, previous, follower, c) ==
    IF calculate_engagement(performance).raised THEN {}
    ELSE IF comparison_of(performance, previous, c).raised THEN {}
    ELSE IF followers_of(performance, previous, follower, c).raised THEN {}
    ELSE {reorder_columns(ranked, c.page_col) :
             ranked \in rank_pages(followers_of(performance, previous, follower, c).df,
                                   "total_engagement")}

----------------------------------------------------------------------------
(* utils.py: the column mappings and their validation *)

\* A mapping is the dict of create_column_mapping_ui, in insertion order: a
\* sequence of <<field key, selected column name>>, '' when none is selected.
performance_fields == <<"page_name", "post_id", "date", "likes", "comments", "shares">>
previous_fields == <<"page_name", "engagement", "post_count", "day_won", "rank">>
follower_fields == <<"page_name", "followers">>

\* The column auto_detect_column preselects for a field key in the files of
\* the model, whose columns are named page, post, date, likes, comments,
\* shares / page, engagement, post_count, day_won, rank / page, followers.
auto_detect_column(field_key) ==
    CASE field_key = "page_name" -> "page"
      [] field_key = "post_id" -> "post"
      [] OTHER -> field_key

create_column_mapping_ui(required_fields) ==
    [i \in 1..Len(required_fields) |->
        <<required_fields[i], auto_detect_column(required_fields[i])>>]

DefaultMapping ==
    [performance |-> create_column_mapping_ui(performance_fields),
     previous |-> create_column_mapping_ui(previous_fields),
     follower |-> create_column_mapping_ui(follower_fields)]

\* mapping[field_key]
MapGet(m, field_key) == m[CHOOSE i \in DOMAIN m : m[i][1] = field_key][2]

\* The mapping with another selection for one field.
MapSet(m, field_key, column_name) ==
    [i \in DOMAIN m |-> IF m[i][1] = field_key THEN <<field_key, column_name>> ELSE m[i]]

\* A variant that finds every mapping valid.
validate_mapping_unchecked(m, allow_empty) == [valid |-> TRUE, empty_fields |-> <<>>]

validate_mapping(m, allow_empty) ==
    LET empty == SelectSeq(m, LAMBDA kv : kv[2] = "" /\ kv[1] \notin Range(allow_empty))
        empty_fields == [i \in 1..Len(empty) |-> empty[i][1]]
    IN [valid |-> Len(empty_fields) = 0, empty_fields |-> empty_fields]

\* The keyword arguments show_column_mapping passes to create_leaderboard.
mapped_cols(m) ==
    [page_col |-> MapGet(m.performance, "page_name"),
     follower_col |-> MapGet(m.follower, "followers"),
     previous_posts_col |-> MapGet(m.previous, "post_count"),
     previous_engagement_col |-> MapGet(m.previous, "engagement"),
     previous_day_won_col |-> MapGet(m.previous, "day_won"),
     previous_rank_col |-> MapGet(m.previous, "rank")]

\* None, for a leaderboard: a frame without columns, which no leaderboard is.
None == NoFrame

NoLoad == [slot |-> "", file |-> [name |-> <<>>, readable |-> FALSE, df |-> <<>>],
           returned |-> FALSE, raised |-> FALSE]

Slots == {"performance", "previous", "follower"}

----------------------------------------------------------------------------
(* The inputs *)

PageA == <<65>>          \* "A"
PageAB == <<65, 66>>     \* "AB"
PageB == <<66>>          \* "B"
Pages == {PageA, PageAB, PageB}

DateCell(day, tod) == [ok |-> TRUE, day |-> day, tod |-> tod]
BadDate == [ok |-> FALSE, day |-> 0, tod |-> 0]
DateCells == {DateCell(1, 0), DateCell(1, 1), DateCell(2, 0), BadDate}

PerfRow(page, date, likes, comments, shares) ==
    [page |-> page, date |-> date, likes |-> likes, comments |-> comments, shares |-> shares]

SeqsUpTo(S, n) == UNION {[1..k -> S] : k \in 1..n}

DefaultCols ==
    [page_col |-> "page", follower_col |-> "followers",
     previous_posts_col |-> "post_count", previous_engagement_col |-> "engagement",
     previous_day_won_col |-> "day_won", previous_rank_col |-> "rank"]

PrevRow(page, post_count, engagement, day_won, rank) ==
    [c \in {"page", "post_count", "engagement", "day_won", "rank"} |->
        CASE c = "page" -> page
          [] c = "post_count" -> post_count
          [] c = "engagement" -> engagement
          [] c = "day_won" -> day_won
          [] OTHER -> rank]

FullPreviousColumns == <<"page", "post_count", "engagement", "day_won", "rank">>

StdPrevious ==
    Frame(FullPreviousColumns,
          <<PrevRow(PageA, NumCell(2), NumCell(4), NumCell(1), NumCell(2))>>)

FollowerRow(page, followers) ==
    [c \in {"page", "followers"} |-> IF c = "page" THEN page ELSE followers]

StdFollowers == Frame(<<"page", "followers">>, <<FollowerRow(PageA, NumCell(7))>>)

\* A follower dataset whose count is the text "x".
TextFollowers == Frame(<<"page", "followers">>, <<FollowerRow(PageA, TextCell(<<120>>))>>)

InitWith(P, V, F) ==
    /\ performance_df \in P
    /\ previous_df \in V
    /\ follower_df \in F
    /\ cols = DefaultCols
    /\ stored = Slots
    /\ show_mapping = TRUE
    /\ mappings = DefaultMapping
    /\ session_leaderboard = None
    /\ last_load = NoLoad
    /\ pc = "calculate_engagement"
    /\ df_with_engagement = <<>>
    /\ daily_agg = <<>>
    /\ daily_with_winners = <<>>
    /\ overall = NoFrame
    /\ with_comparison = NoFrame
    /\ with_followers = NoFrame
    /\ leaderboard = NoFrame

Like1 == <<NumCell(1), NumCell(0), NumCell(0)>>          \* engagement 1
TextAndComment == <<TextCell(<<120>>), NumCell(1), NaN>>   \* engagement 2

\* The posts of the performance datasets: a post of engagement 1 for every
\* page and date cell (two days, one of them at two times of day, and an
\* unparseable date), and a post of engagement 2, whose likes cell is a text
\* and whose shares cell is empty, for the two greater pages.
PerfRows ==
    {PerfRow(p, d, Like1[1], Like1[2], Like1[3]) : p \in Pages, d \in DateCells}
      \cup {PerfRow(p, DateCell(1, 0), TextAndComment[1], TextAndComment[2], TextAndComment[3]) :
              p \in {PageAB, PageB}}

\* Performance datasets of one to MaxRows posts, in every order.
Init == InitWith(SeqsUpTo(PerfRows, MaxRows), {StdPrevious}, {StdFollowers})

Spec == Init /\ [][Next]_vars

----------------------------------------------------------------------------
(* Inputs that vary the cells of one post *)

CellSamples ==
    {NumCell(0), NumCell(3), NaN, TextCell(<<120>>), TextCell(<<49, 50>>),
     TextCell(<<49, 120>>)}       \* 0, 3, empty, "x", "12", "1x"

CellRows == {PerfRow(PageA, DateCell(1, 0), l, c, s) : l, c, s \in CellSamples}

InitCells == InitWith({<<r>> : r \in CellRows}, {StdPrevious}, {StdFollowers, TextFollowers})

SpecCells == InitCells /\ [][Next]_vars

----------------------------------------------------------------------------
(* Inputs that vary the prior-period dataset *)

MaxPrevRows == 1

\* At most one post per page, of 0, 50, 100 or 150 likes.
LikesSamples == {0, 50, 100, 150}
ComparePerf ==
    LET RowOf(p, n) == PerfRow(p, DateCell(1, 0), NumCell(n), NumCell(0), NumCell(0))
    IN {<<RowOf(PageA, a)>> : a \in LikesSamples}
         \cup {<<RowOf(PageA, a), RowOf(PageB, b)>> : a, b \in LikesSamples}

\* Prior post count and prior engagement of a page.
PriorPairs == {<<NumCell(0), NumCell(0)>>, <<NumCell(2), NumCell(100)>>,
               <<NumCell(2), NumCell(0)>>, <<NaN, NaN>>}

\* Page A won 3 days and was second, page B won none and was first.
PrevRows ==
    {PrevRow(PageA, v[1], v[2], NumCell(3), NumCell(2)) : v \in PriorPairs}
      \cup {PrevRow(PageB, v[1], v[2], NumCell(0), NumCell(1)) : v \in PriorPairs}

\* The column sets of a prior-period file: complete, without the optional
\* columns, without the post count, without the engagement.
PreviousColumnSets ==
    {FullPreviousColumns,
     <<"page", "post_count", "engagement">>,
     <<"page", "engagement", "day_won", "rank">>,
     <<"page", "post_count", "day_won", "rank">>}

\* Prior-period datasets: an empty sheet (no column, no row), and for each
\* column set the header alone or up to MaxPrevRows rows.
PreviousFrames ==
    {NoFrame}
      \cup {SelectColumns(Frame(FullPreviousColumns, rows), columns) :
              columns \in PreviousColumnSets,
              rows \in {<<>>} \cup SeqsUpTo(PrevRows, MaxPrevRows)}

InitCompare == InitWith(ComparePerf, PreviousFrames, {StdFollowers})

SpecCompare == InitCompare /\ [][Next]_vars

----------------------------------------------------------------------------
(* Inputs that vary the follower dataset *)

MaxFollowerRows == 2

\* One post of one like per page.
FollowerPerf ==
    LET RowOf(p) == PerfRow(p, DateCell(1, 0), NumCell(1), NumCell(0), NumCell(0))
    IN {<<RowOf(PageA)>>, <<RowOf(PageB)>>, <<RowOf(PageB), RowOf(PageA)>>}

\* Follower counts: 7, 9, an empty cell, "x", "12".
FollowerCells ==
    {NumCell(7), NumCell(9), NaN, TextCell(<<120>>), TextCell(<<49, 50>>)}

FollowerRows == {FollowerRow(p, c) : p \in Pages, c \in FollowerCells}

\* Follower datasets: the header alone or up to MaxFollowerRows rows, in which
\* a page can have no entry, one entry or several.
FollowerFrames ==
    {Frame(<<"page", "followers">>, rows) :
        rows \in {<<>>} \cup SeqsUpTo(FollowerRows, MaxFollowerRows)}

InitFollowers == InitWith(FollowerPerf, {StdPrevious}, FollowerFrames)

SpecFollowers == InitFollowers /\ [][Next]_vars

----------------------------------------------------------------------------
(* Inputs around the end-to-end scenario: two pages, two days, one post per  *)
(* page and day in every order, each post one of four kinds.                 *)

ScenarioMetrics ==
    {<<NumCell(4), NumCell(0), NumCell(2)>>,     \* engagement 10
     <<NumCell(0), NumCell(15), NumCell(0)>>,    \* engagement 30
     <<NumCell(20), NumCell(0), NumCell(0)>>,    \* engagement 20
     <<NumCell(1), NumCell(2), NumCell(0)>>}     \* engagement 5

ScenarioPerf ==
    {[i \in 1..4 |->
        LET k == order[i]
            page == IF k \in {1, 2} THEN PageA ELSE PageB
            day == IF k \in {1, 3} THEN 1 ELSE 2
        IN PerfRow(page, DateCell(day, 0), m[k][1], m[k][2], m[k][3])] :
      order \in RowOrders(4), m \in [1..4 -> ScenarioMetrics]}

InitE2E == InitWith(ScenarioPerf, {StdPrevious}, {StdFollowers})

SpecE2E == InitE2E /\ [][Next]_vars

----------------------------------------------------------------------------
(* Inputs that vary the column names of the prior-period and the follower    *)
(* dataset, each mapped to its own columns.                                  *)

\* The column names of a prior-period file, by field: its own names, or names
\* that the current result or the leaderboard has too.
PriorNames ==
    [page_name : {"page", "Page Name"},
     post_count : {"post_count", "total_posts", "followers"},
     engagement : {"engagement", "total_engagement"},
     day_won : {"day_won", "days_won"},
     rank : {"rank"}]

\* The prior-period file with these column names.
NamedPrevious(n) ==
    RenameColumns(StdPrevious,
                  [c \in Range(FullPreviousColumns) |->
                     CASE c = "page" -> n.page_name
                       [] c = "post_count" -> n.post_count
                       [] c = "engagement" -> n.engagement
                       [] c = "day_won" -> n.day_won
                       [] OTHER -> n.rank])

\* The follower file with this name for its page column.
NamedFollowers(page_name) ==
    RenameColumns(StdFollowers, [c \in {"page"} |-> page_name])

\* The mappings that select, for every field, the column of that name.
NamedMapping(n, follower_page) ==
    [performance |-> DefaultMapping.performance,
     previous |-> [i \in 1..Len(previous_fields) |->
                     <<previous_fields[i], n[previous_fields[i]]>>],
     follower |-> <<<<"page_name", follower_page>>, <<"followers", "followers">>>>]

\* The state in which Generate Dashboard has called create_leaderboard.
InitNames ==
    /\ performance_df \in FollowerPerf
    /\ \E n \in PriorNames : \E follower_page \in {"page", "Page Name"} :
          /\ previous_df = NamedPrevious(n)
          /\ follower_df = NamedFollowers(follower_page)
          /\ mappings = NamedMapping(n, follower_page)
          /\ cols = mapped_cols(NamedMapping(n, follower_page))
    /\ stored = Slots
    /\ show_mapping = TRUE
    /\ session_leaderboard = None
    /\ last_load = NoLoad
    /\ pc = "calculate_engagement"
    /\ df_with_engagement = <<>>
    /\ daily_agg = <<>>
    /\ daily_with_winners = <<>>
    /\ overall = NoFrame
    /\ with_comparison = NoFrame
    /\ with_followers = NoFrame
    /\ leaderboard = NoFrame

SpecNames == InitNames /\ [][Next]_vars

----------------------------------------------------------------------------
(* utils.py: loading an uploaded file *)

\* File names as ASCII codes: "p.xlsx", "p.xls" and "p.XLSX".
NameXlsx == <<112, 46, 120, 108, 115, 120>>
NameXls == <<112, 46, 120, 108, 115>>
NameUpper == <<112, 46, 88, 76, 83, 88>>
FileNames == {NameXlsx, NameXls, NameUpper}

\* str.endswith
endswith(name, suffix) ==
    /\ Len(name) >= Len(suffix)
    /\ SubSeq(name, Len(name) - Len(suffix) + 1, Len(name)) = suffix

\* A variant that takes every file for an .xlsx file.
detect_file_type_any(uploaded_file) == "xlsx"

detect_file_type(uploaded_file) ==
    IF endswith(uploaded_file.name, <<46, 120, 108, 115, 120>>) THEN "xlsx"
    ELSE IF endswith(uploaded_file.name, <<46, 120, 108, 115>>) THEN "xls"
    ELSE "unknown"

\* pd.read_excel: the sheet of a workbook the engine can read, an exception
\* otherwise.
read_excel(uploaded_file, engine) ==
    IF uploaded_file.readable THEN [raised |-> FALSE, df |-> uploaded_file.df]
    ELSE [raised |-> TRUE, df |-> <<>>]

\* returned is FALSE when load_excel_file returns None.
load_excel_file(uploaded_file) ==
    LET file_type == detect_file_type(uploaded_file)
        df == read_excel(uploaded_file, IF file_type = "xlsx" THEN "openpyxl" ELSE "xlrd")
    IN IF file_type \in {"xlsx", "xls"}
       THEN IF df.raised                              \* except Exception
            THEN [raised |-> FALSE, returned |-> FALSE, df |-> <<>>]
            ELSE [raised |-> FALSE, returned |-> TRUE, df |-> df.df]
       ELSE [raised |-> FALSE, returned |-> FALSE, df |-> <<>>]

----------------------------------------------------------------------------
(* app.py: the application.  Every action is one run of the script, started  *)
(* by an upload, a selection or a click; the run started by Generate         *)
(* Dashboard calls create_leaderboard and goes through its steps.            *)

locals == <<df_with_engagement, daily_agg, daily_with_winners, overall, with_comparison,
            with_followers, leaderboard>>

\* The local results of create_leaderboard before step 1.
NoLocals ==
    /\ df_with_engagement' = <<>>
    /\ daily_agg' = <<>>
    /\ daily_with_winners' = <<>>
    /\ overall' = NoFrame
    /\ with_comparison' = NoFrame
    /\ with_followers' = NoFrame
    /\ leaderboard' = NoFrame

\* The files the user has at hand: workbooks under each of the names, and
\* under each name a file that pd.read_excel cannot read.
FilesOf(dfs, nothing) ==
    {[name |-> n, readable |-> TRUE, df |-> d] : n \in FileNames, d \in dfs}
      \cup {[name |-> n, readable |-> FALSE, df |-> nothing] : n \in FileNames}

AppPerformance ==
    LET RowOf(p) == PerfRow(p, DateCell(1, 0), NumCell(1), NumCell(0), NumCell(0))
    IN {<<RowOf(PageA)>>, <<RowOf(PageB), RowOf(PageA)>>}

\* A follower workbook with a count of 7 and one with the text "x" as count.
AppFollowers ==
    {StdFollowers, Frame(<<"page", "followers">>, <<FollowerRow(PageA, TextCell(<<120>>))>>)}

all_uploaded == stored = Slots

UploadPerformance ==
    /\ pc = "idle"
    /\ \E uploaded_file \in FilesOf(AppPerformance, <<>>) :
          LET df == load_excel_file(uploaded_file)
          IN /\ last_load' = [slot |-> "performance", file |-> uploaded_file,
                              returned |-> df.returned, raised |-> df.raised]
             /\ IF df.returned
                THEN performance_df' = df.df /\ stored' = stored \cup {"performance"}
                ELSE UNCHANGED <<performance_df, stored>>
    /\ UNCHANGED <<previous_df, follower_df, cols, pc, locals, show_mapping, mappings,
                   session_leaderboard>>

UploadPrevious ==
    /\ pc = "idle"
    /\ \E uploaded_file \in FilesOf({StdPrevious}, NoFrame) :
          LET df == load_excel_file(uploaded_file)
          IN /\ last_load' = [slot |-> "previous", file |-> uploaded_file,
                              returned |-> df.returned, raised |-> df.raised]
             /\ IF df.returned
                THEN previous_df' = df.df /\ stored' = stored \cup {"previous"}
                ELSE UNCHANGED <<previous_df, stored>>
    /\ UNCHANGED <<performance_df, follower_df, cols, pc, locals, show_mapping, mappings,
                   session_leaderboard>>

UploadFollower ==
    /\ pc = "idle"
    /\ \E uploaded_file \in FilesOf(AppFollowers, NoFrame) :
          LET df == load_excel_file(uploaded_file)
          IN /\ last_load' = [slot |-> "follower", file |-> uploaded_file,
                              returned |-> df.returned, raised |-> df.raised]
             /\ IF df.returned
                THEN follower_df' = df.df /\ stored' = stored \cup {"follower"}
                ELSE UNCHANGED <<follower_df, stored>>
    /\ UNCHANGED <<performance_df, previous_df, cols, pc, locals, show_mapping, mappings,
                   session_leaderboard>>

\* "Map Columns & Generate Dashboard": the mapping widgets appear with the
\* auto-detected columns selected.
MapColumns ==
    /\ pc = "idle"
    /\ all_uploaded
    /\ show_mapping' = TRUE
    /\ mappings' = IF show_mapping THEN mappings ELSE DefaultMapping
    /\ UNCHANGED <<performance_df, previous_df, follower_df, cols, pc, locals, stored,
                   session_leaderboard, last_load>>

\* "Back to Upload": the mapping page, and its widgets, are not shown again.
BackToUpload ==
    /\ pc = "idle"
    /\ all_uploaded
    /\ show_mapping
    /\ show_mapping' = FALSE
    /\ mappings' = DefaultMapping
    /\ UNCHANGED <<performance_df, previous_df, follower_df, cols, pc, locals, stored,
                   session_leaderboard, last_load>>

\* The fields whose selection the user changes: a field of each mapping, and
\* the optional fields of the prior-period mapping.
ChangedFields ==
    {<<"performance", "likes">>, <<"previous", "post_count">>, <<"previous", "day_won">>,
     <<"previous", "rank">>, <<"follower", "followers">>}

\* The user selects '' or the column of the file in a selectbox.
SelectColumn ==
    /\ pc = "idle"
    /\ all_uploaded
    /\ show_mapping
    /\ \E f \in ChangedFields : \E selected \in {"", auto_detect_column(f[2])} :
          mappings' = [mappings EXCEPT ![f[1]] = MapSet(@, f[2], selected)]
    /\ UNCHANGED <<performance_df, previous_df, follower_df, cols, pc, locals, stored,
                   show_mapping, session_leaderboard, last_load>>

\* "if perf_valid and prev_valid and foll_valid": the Generate Dashboard
\* button is enabled.
GenerateEnabled ==
    /\ validate_mapping(mappings.performance, <<>>).valid
    /\ validate_mapping(mappings.previous, <<>>).valid
    /\ validate_mapping(mappings.follower, <<>>).valid

\* The st.error under the disabled button: the empty fields of each mapping
\* that is not valid.
mapping_errors ==
    SelectSeq(<<<<"Performance", validate_mapping(mappings.performance, <<>>).empty_fields>>,
                <<"Last Fortnight", validate_mapping(mappings.previous, <<>>).empty_fields>>,
                <<"Follower", validate_mapping(mappings.follower, <<>>).empty_fields>>>>,
              LAMBDA e : e[2] # <<>>)

\* A click on "Generate Dashboard": create_leaderboard is called.
GenerateDashboard ==
    /\ pc = "idle"
    /\ all_uploaded
    /\ show_mapping
    /\ GenerateEnabled
    /\ cols' = mapped_cols(mappings)
    /\ pc' = "calculate_engagement"
    /\ UNCHANGED <<performance_df, previous_df, follower_df, locals, app_vars>>

\* A variant that stores whatever create_leaderboard has computed.
session_after_generate_partial(returned, result, before) == result

\* st.session_state.leaderboard after the try block: the result when
\* create_leaderboard returned, what it was when it raised.
session_after_generate(returned, result, before) == IF returned THEN result ELSE before

\* create_leaderboard returned: the leaderboard is stored and the dashboard shown.
GenerateReturn ==
    /\ pc = "done"
    /\ session_leaderboard' = session_after_generate(TRUE, leaderboard, session_leaderboard)
    /\ show_mapping' = FALSE
    /\ mappings' = DefaultMapping
    /\ pc' = "idle"
    /\ NoLocals
    /\ UNCHANGED <<performance_df, previous_df, follower_df, cols, stored, last_load>>

\* create_leaderboard raised: the error is shown on the mapping page.
GenerateExcept ==
    /\ pc = "raised"
    /\ session_leaderboard' = session_after_generate(FALSE, leaderboard, session_leaderboard)
    /\ pc' = "idle"
    /\ NoLocals
    /\ UNCHANGED <<performance_df, previous_df, follower_df, cols, stored, show_mapping,
                   mappings, last_load>>

\* "elif st.session_state.leaderboard is not None": show_dashboard is called.
DashboardDisplayed ==
    /\ pc = "idle"
    /\ all_uploaded
    /\ ~show_mapping
    /\ session_leaderboard # None

\* "Start Over" on the dashboard: every key of the session state is deleted
\* and the script runs again.  initialize_session_state sets the datasets,
\* the mappings and the leaderboard to None and show_mapping to False.  A
\* file_uploader that still holds a file after its key was deleted loads it
\* again in this run, one that does not leaves its dataset None: the
\* datasets of any subset of the slots are stored again.
StartOver ==
    /\ DashboardDisplayed
    /\ \E kept \in SUBSET stored :
          /\ stored' = kept
          /\ performance_df' = IF "performance" \in kept THEN performance_df ELSE <<>>
          /\ previous_df' = IF "previous" \in kept THEN previous_df ELSE NoFrame
          /\ follower_df' = IF "follower" \in kept THEN follower_df ELSE NoFrame
    /\ show_mapping' = FALSE
    /\ mappings' = DefaultMapping
    /\ session_leaderboard' = None
    /\ last_load' = NoLoad
    /\ UNCHANGED <<cols, pc, locals>>

NextApp ==
    \/ UploadPerformance \/ UploadPrevious \/ UploadFollower
    \/ MapColumns \/ BackToUpload \/ SelectColumn
    \/ GenerateDashboard
    \/ Step1 \/ Step2 \/ Step3 \/ Step4 \/ Step5 \/ Step6 \/ Step7 \/ Step8
    \/ GenerateReturn \/ GenerateExcept
    \/ StartOver

\* initialize_session_state: nothing is uploaded, no leaderboard.
InitApp ==
    /\ performance_df = <<>>
    /\ previous_df = NoFrame
    /\ follower_df = NoFrame
    /\ stored = {}
    /\ show_mapping = FALSE
    /\ mappings = DefaultMapping
    /\ session_leaderboard = None
    /\ last_load = NoLoad
    /\ cols = mapped_cols(DefaultMapping)
    /\ pc = "idle"
    /\ df_with_engagement = <<>>
    /\ daily_agg = <<>>
    /\ daily_with_winners = <<>>
    /\ overall = NoFrame
    /\ with_comparison = NoFrame
    /\ with_followers = NoFrame
    /\ leaderboard = NoFrame

SpecApp == InitApp /\ [][NextApp]_vars

----------------------------------------------------------------------------
(* Properties *)

\* The number of steps of create_leaderboard that have returned.  Steps 1, 5,
\* 6 and 7 can raise; the step that raised is the first without a result.
StepsDone ==
    CASE pc = "calculate_engagement" -> 0
      [] pc = "aggregate_by_day" -> 1
      [] pc = "identify_daily_winners" -> 2
      [] pc = "aggregate_overall" -> 3
      [] pc = "add_comparison_data" -> 4
      [] pc = "add_follower_data" -> 5
      [] pc = "rank_pages" -> 6
      [] pc = "reorder_columns" -> 7
      [] pc = "done" -> 8
      [] OTHER -> IF df_with_engagement = <<>> THEN 0
                  ELSE IF with_comparison = NoFrame THEN 4
                  ELSE IF with_followers = NoFrame THEN 5
                  ELSE 6

RECURSIVE Power10(_)
Power10(k) == IF k = 0 THEN 1 ELSE 10 * Power10(k - 1)

RECURSIVE SumOver(_, _)
SumOver(S, f) ==
    IF S = {} THEN 0
    ELSE LET x == CHOOSE y \in S : TRUE IN f[x] + SumOver(S \ {x}, f)

\* What a cell is worth as a number: itself, the decimal number a text of
\* digits spells, 0 for any other text and for an empty cell.
NumericOrZero(c) ==
    IF c.t = "num" THEN c.n
    ELSE IF c.t = "text" /\ c.s # <<>> /\ \A k \in DOMAIN c.s : c.s[k] >= 48 /\ c.s[k] <= 57
         THEN SumOver(DOMAIN c.s, [k \in DOMAIN c.s |-> (c.s[k] - 48) * Power10(Len(c.s) - k)])
    ELSE 0

\* a = b, or a comes before b in lexicographic order
LexBeforeOrEqual(a, b) ==
    \/ \E k \in DOMAIN a \cap DOMAIN b :
          a[k] < b[k] /\ \A m \in 1..(k - 1) : a[m] = b[m]
    \/ Len(a) <= Len(b) /\ \A m \in DOMAIN a : a[m] = b[m]

\* The engagement of the posts of a page on a calendar day, from the cells of
\* the performance dataset, whatever the order of its rows.
PostsOn(p, d) ==
    {i \in DOMAIN performance_df :
        performance_df[i].page = p /\ performance_df[i].date.ok /\ performance_df[i].date.day = d}

DayTotal(p, d) ==
    SumOver(PostsOn(p, d),
            [i \in PostsOn(p, d) |->
                NumericOrZero(performance_df[i].likes)
                  + 2 * NumericOrZero(performance_df[i].comments)
                  + 3 * NumericOrZero(performance_df[i].shares)])

\* C1: after calculate_engagement every row has engagement L + 2*C + 3*S, with
\* L, C, S the numbers in its likes, comments and shares cells and 0 for a cell
\* that is no number or is empty; calculate_engagement does not raise.
C1_EngagementFormula ==
    /\ ~(pc = "raised" /\ StepsDone = 0)
    /\ StepsDone >= 1 =>
          /\ Len(df_with_engagement) = Len(performance_df)
          /\ \A i \in DOMAIN performance_df :
                df_with_engagement[i].engagement =
                    NumericOrZero(performance_df[i].likes)
                      + 2 * NumericOrZero(performance_df[i].comments)
                      + 3 * NumericOrZero(performance_df[i].shares)

C1_Witness ==
    /\ pc = "aggregate_by_day"
    /\ performance_df[1].likes = TextCell(<<120>>)
    /\ performance_df[1].comments = NumCell(3)
    /\ performance_df[1].shares = TextCell(<<49, 50>>)
    /\ df_with_engagement[1].engagement = 42

\* C2: in the output of identify_daily_winners, every date of the daily rollup
\* has exactly one record with day_won = 1, its other records have day_won = 0,
\* and the record marked 1 holds the date's maximal total_engagement.
C2_OneWinnerPerDate ==
    StepsDone >= 3 =>
      /\ Len(daily_with_winners) = Len(daily_agg)
      /\ \A i \in DOMAIN daily_agg :
            /\ daily_with_winners[i].page = daily_agg[i].page
            /\ daily_with_winners[i].date = daily_agg[i].date
            /\ daily_with_winners[i].total_engagement = daily_agg[i].total_engagement
      /\ \A d \in {daily_agg[i].date : i \in DOMAIN daily_agg} :
            LET recs == {i \in DOMAIN daily_with_winners : daily_with_winners[i].date = d}
                won == {i \in recs : daily_with_winners[i].day_won = 1}
            IN /\ Cardinality(won) = 1
               /\ \A i \in recs \ won : daily_with_winners[i].day_won = 0
               /\ \A i \in won : \A j \in recs :
                     daily_with_winners[j].total_engagement
                        <= daily_with_winners[i].total_engagement

C2_Witness ==
    /\ pc = "aggregate_overall"
    /\ \E i, j \in DOMAIN daily_with_winners :
          /\ i # j
          /\ daily_with_winners[i].date = daily_with_winners[j].date
          /\ daily_with_winners[i].total_engagement = daily_with_winners[j].total_engagement
          /\ daily_with_winners[i].day_won = 1
          /\ daily_with_winners[j].day_won = 0
    /\ \E i, j \in DOMAIN daily_with_winners :
          daily_with_winners[i].date # daily_with_winners[j].date

\* The pages that hold the maximal engagement of a calendar day.
TopPages(d) ==
    LET posting == {p \in Pages : PostsOn(p, d) # {}}
    IN {p \in posting : \A q \in posting : DayTotal(q, d) <= DayTotal(p, d)}

\* C3: the page marked day_won on a date is the lexicographically lowest of the
\* pages that hold the date's maximal engagement, a function of the rows of the
\* performance dataset that does not depend on their order.
C3_LowestPageWinsTie ==
    StepsDone >= 3 =>
      \A i \in DOMAIN daily_with_winners :
         daily_with_winners[i].day_won = 1 =>
            /\ daily_with_winners[i].page \in TopPages(daily_with_winners[i].date)
            /\ \A q \in TopPages(daily_with_winners[i].date) :
                  LexBeforeOrEqual(daily_with_winners[i].page, q)

\* Two pages tie on day 1, the greater one comes first in the dataset, and a
\* lower page that does not hold the maximum posted on that day too.
C3_Witness ==
    /\ pc = "aggregate_overall"
    /\ TopPages(1) = {PageAB, PageB}
    /\ performance_df[1].page = PageB
    /\ PostsOn(PageA, 1) # {}
    /\ \E i \in DOMAIN daily_with_winners :
          /\ daily_with_winners[i].page = PageAB
          /\ daily_with_winners[i].date = 1
          /\ daily_with_winners[i].day_won = 1

\* C4: after aggregate_overall the days_won of all pages add up to the number
\* of distinct calendar dates of the performance dataset.
C4_DaysWonSum ==
    StepsDone >= 4 =>
      SumSeq(Column(overall.rows, "days_won"))
         = Cardinality({performance_df[i].date.day :
                           i \in {k \in DOMAIN performance_df : performance_df[k].date.ok}})

\* Two posts on one day at different times of day, and a post without a date.
C4_Witness ==
    /\ pc = "add_comparison_data"
    /\ \E i, j, k \in DOMAIN performance_df :
          /\ performance_df[i].date.ok /\ performance_df[j].date.ok
          /\ performance_df[i].date.day = performance_df[j].date.day
          /\ performance_df[i].date.tod # performance_df[j].date.tod
          /\ performance_df[i].page # performance_df[j].page
          /\ ~performance_df[k].date.ok
    /\ SumSeq(Column(overall.rows, "days_won")) = 1

\* C5: after aggregate_overall the total_posts of all pages add up to the number
\* of rows of the performance dataset.
C5_TotalPostsSum ==
    StepsDone >= 4 =>
      SumSeq(Column(overall.rows, "total_posts")) = Len(performance_df)

C5_Witness ==
    /\ pc = "add_comparison_data"
    /\ Len(performance_df) = MaxRows
    /\ Len(overall.rows) = 2
    /\ \E k \in DOMAIN performance_df : ~performance_df[k].date.ok
    /\ SumSeq(Column(overall.rows, "total_posts")) = MaxRows

\* The percentage v is what the claim gives for current and previous: 0 when
\* previous is undefined or 0, else the fraction ((current - previous) / previous) * 100.
IsPercentageChange(v, current, previous) ==
    IF previous.t = "nan" \/ (previous.t = "num" /\ previous.n = 0)
    THEN v = [num |-> 0, den |-> 1]
    ELSE /\ v.den > 0
         /\ v.num * previous.n = (current - previous.n) * 100 * v.den
         /\ \A g \in 2..v.den : v.num % g # 0 \/ v.den % g # 0

\* C6: the percentage changes add_comparison_data computes with
\* calculate_percentage_change are ((current - previous) / previous) * 100 when
\* previous is a number other than 0 and 0 when previous is 0 or undefined;
\* calc(100, 0) = 0, calc(0, 0) = 0, calc(150, 100) = 50, calc(50, 100) = -50.
C6_PercentageChange ==
    (StepsDone >= 5 /\ HasColumn(with_comparison, "engagement")
                    /\ HasColumn(with_comparison, "post_count")) =>
      \A i \in DOMAIN with_comparison.rows :
         LET r == with_comparison.rows[i]
             v == r["engagement_change_pct"]
         IN /\ IsPercentageChange(v, r["total_engagement"], r["engagement"])
            /\ IsPercentageChange(r["posts_change_pct"], r["total_posts"], r["post_count"])
            /\ (r["total_engagement"] = 100 /\ r["engagement"] = NumCell(0)) => v.num = 0
            /\ (r["total_engagement"] = 0 /\ r["engagement"] = NumCell(0)) => v.num = 0
            /\ (r["total_engagement"] = 150 /\ r["engagement"] = NumCell(100))
                  => v = [num |-> 50, den |-> 1]
            /\ (r["total_engagement"] = 50 /\ r["engagement"] = NumCell(100))
                  => v = [num |-> -50, den |-> 1]

\* One page grew from 100 to 150, the other has no prior record.
C6_Witness ==
    /\ pc = "add_follower_data"
    /\ Len(with_comparison.rows) = 2
    /\ HasColumn(with_comparison, "engagement")
    /\ with_comparison.rows[1]["total_engagement"] = 150
    /\ with_comparison.rows[1]["engagement"] = NumCell(100)
    /\ with_comparison.rows[1]["engagement_change_pct"] = [num |-> 50, den |-> 1]
    /\ with_comparison.rows[1]["posts_change_pct"] = [num |-> -50, den |-> 1]
    /\ with_comparison.rows[2]["total_engagement"] = 100
    /\ with_comparison.rows[2]["engagement"] = NaN
    /\ with_comparison.rows[2]["engagement_change_pct"] = [num |-> 0, den |-> 1]

\* Every row has rank 1 + the number of rows of greater engagement, and the
\* rows are in order of non-decreasing rank.
IsMinRanked(df, rank, engagement) ==
    /\ \A i \in DOMAIN df.rows :
          df.rows[i][rank]
             = 1 + Cardinality({j \in DOMAIN df.rows :
                                   df.rows[j][engagement] > df.rows[i][engagement]})
    /\ \A i, j \in DOMAIN df.rows : i < j => df.rows[i][rank] <= df.rows[j][rank]

\* C7: rank_pages gives every row the rank 1 + (number of rows of strictly
\* greater total_engagement) and returns the rows by non-decreasing rank; the
\* returned leaderboard keeps both.
C7_MinRanking ==
    /\ pc = "reorder_columns" =>
          /\ Len(leaderboard.rows) = Len(with_followers.rows)
          /\ IsMinRanked(leaderboard, "rank", "total_engagement")
    /\ pc = "done" =>
          /\ Len(leaderboard.rows) = Len(with_followers.rows)
          /\ IsMinRanked(leaderboard, "Rank", "Engagement")

\* Two tied leaders and a third page: ranks 1, 1, 3.
C7_Witness ==
    /\ pc = "reorder_columns"
    /\ Len(leaderboard.rows) = 3
    /\ leaderboard.rows[1]["total_engagement"] = leaderboard.rows[2]["total_engagement"]
    /\ leaderboard.rows[3]["total_engagement"] < leaderboard.rows[2]["total_engagement"]
    /\ leaderboard.rows[1]["rank"] = 1
    /\ leaderboard.rows[2]["rank"] = 1
    /\ leaderboard.rows[3]["rank"] = 3

\* C8: in the returned leaderboard, rows of equal rank are in lexicographic
\* order of their page identifier.
C8_TiesInPageOrder ==
    pc = "done" =>
      \A i, j \in DOMAIN leaderboard.rows :
         (i < j /\ leaderboard.rows[i]["Rank"] = leaderboard.rows[j]["Rank"]) =>
            LexBeforeOrEqual(leaderboard.rows[i]["Page/Profile/Channel"],
                             leaderboard.rows[j]["Page/Profile/Channel"])

\* The performance data of the end-to-end scenario: pages A and B, two days,
\* daily engagement A: 10 and 30, B: 20 and 5.
IsScenario ==
    /\ {performance_df[i].page : i \in DOMAIN performance_df} = {PageA, PageB}
    /\ \A i \in DOMAIN performance_df :
          performance_df[i].date.ok /\ performance_df[i].date.day \in {1, 2}
    /\ DayTotal(PageA, 1) = 10
    /\ DayTotal(PageA, 2) = 30
    /\ DayTotal(PageB, 1) = 20
    /\ DayTotal(PageB, 2) = 5

\* C9: on the scenario's performance data create_leaderboard marks B as the
\* winner of day 1 and A as the winner of day 2 and returns A with engagement
\* 40, 1 day won, rank 1, then B with engagement 25, 1 day won, rank 2.
C9_EndToEnd ==
    IsScenario =>
      /\ pc # "raised"
      /\ StepsDone >= 3 =>
            \A i \in DOMAIN daily_with_winners :
               daily_with_winners[i].day_won
                  = IF \/ daily_with_winners[i].page = PageB /\ daily_with_winners[i].date = 1
                       \/ daily_with_winners[i].page = PageA /\ daily_with_winners[i].date = 2
                    THEN 1 ELSE 0
      /\ pc = "done" =>
            /\ Len(leaderboard.rows) = 2
            /\ leaderboard.rows[1]["Page/Profile/Channel"] = PageA
            /\ leaderboard.rows[1]["Engagement"] = 40
            /\ leaderboard.rows[1]["Day Won"] = 1
            /\ leaderboard.rows[1]["Rank"] = 1
            /\ leaderboard.rows[2]["Page/Profile/Channel"] = PageB
            /\ leaderboard.rows[2]["Engagement"] = 25
            /\ leaderboard.rows[2]["Day Won"] = 1
            /\ leaderboard.rows[2]["Rank"] = 2

C9_Witness ==
    /\ IsScenario
    /\ pc = "done"
    /\ performance_df[1].page = PageB
    /\ Len(daily_with_winners) = 4
    /\ Len(leaderboard.rows) = 2

\* The prior-period dataset has no row, or lacks the column mapped to the
\* prior post count or to the prior engagement.
PriorDataMissing ==
    \/ previous_df.rows = <<>>
    \/ ~HasColumn(previous_df, cols.previous_posts_col)
    \/ ~HasColumn(previous_df, cols.previous_engagement_col)

\* C10: when the prior-period dataset is empty or lacks the mapped post count
\* or engagement column, add_comparison_data does not raise and gives every
\* page 0 in posts_change_pct, engagement_change_pct, last_fortnight_day_won
\* and last_fortnight_rank.
C10_MissingPriorDefaults ==
    PriorDataMissing =>
      /\ ~(pc = "raised" /\ StepsDone = 4)
      /\ StepsDone >= 5 =>
            /\ Len(with_comparison.rows) = Len(overall.rows)
            /\ \A i \in DOMAIN with_comparison.rows :
                  /\ with_comparison.rows[i][cols.page_col] = overall.rows[i][cols.page_col]
                  /\ with_comparison.rows[i]["posts_change_pct"] = [num |-> 0, den |-> 1]
                  /\ with_comparison.rows[i]["engagement_change_pct"] = [num |-> 0, den |-> 1]
                  /\ with_comparison.rows[i]["last_fortnight_day_won"] = 0
                  /\ with_comparison.rows[i]["last_fortnight_rank"] = 0

\* The prior file has a row for the page, with its engagement, day won and
\* rank, but no post count column.
C10_Witness ==
    /\ pc = "add_follower_data"
    /\ ~HasColumn(previous_df, "post_count")
    /\ HasColumn(previous_df, "engagement")
    /\ Len(previous_df.rows) = 1
    /\ previous_df.rows[1]["page"] = PageA
    /\ previous_df.rows[1]["engagement"] = NumCell(100)
    /\ with_comparison.rows[1]["page"] = PageA
    /\ with_comparison.rows[1]["total_engagement"] = 150
    /\ with_comparison.rows[1]["engagement_change_pct"] = [num |-> 0, den |-> 1]
    /\ with_comparison.rows[1]["last_fortnight_rank"] = 0

\* The rows of a frame that hold the page in the column.
RowsOf(df, column, page) == {i \in DOMAIN df.rows : df.rows[i][column] = page}

\* C11: add_follower_data keeps every row of the comparison result, with its
\* values; a page without an entry in the follower dataset has one row, with
\* followers = 0, and a page with exactly one entry has one row, with the
\* follower count of that entry.
C11_FollowerLeftJoin ==
    StepsDone >= 6 =>
      \A i \in DOMAIN with_comparison.rows :
         LET page == with_comparison.rows[i][cols.page_col]
             entries == RowsOf(follower_df, cols.page_col, page)
             out == RowsOf(with_followers, cols.page_col, page)
         IN /\ out # {}
            /\ \A k \in out : \A c \in Range(with_comparison.columns) :
                  with_followers.rows[k][c] = with_comparison.rows[i][c]
            /\ entries = {} =>
                  /\ Cardinality(out) = 1
                  /\ \A k \in out : with_followers.rows[k]["followers"] = 0
            /\ Cardinality(entries) = 1 =>
                  /\ Cardinality(out) = 1
                  /\ \A k \in out : \A e \in entries :
                        with_followers.rows[k]["followers"]
                           = NumericOrZero(follower_df.rows[e][cols.follower_col])

\* Page B comes first and has no entry, page A has one entry of 9 followers,
\* and the follower dataset lists a page that did not post.
C11_Witness ==
    /\ pc = "rank_pages"
    /\ Len(with_followers.rows) = 2
    /\ Len(follower_df.rows) = 2
    /\ RowsOf(follower_df, "page", PageB) = {}
    /\ RowsOf(follower_df, "page", PageAB) # {}
    /\ \E i \in DOMAIN with_followers.rows :
          with_followers.rows[i]["page"] = PageB /\ with_followers.rows[i]["followers"] = 0
    /\ \E i \in DOMAIN with_followers.rows :
          with_followers.rows[i]["page"] = PageA /\ with_followers.rows[i]["followers"] = 9

\* C12: a page with several entries in the follower dataset has exactly one
\* row after the follower join, with the follower count of its first entry in
\* the follower dataset's order.
C12_DuplicateFollowersOneRow ==
    StepsDone >= 6 =>
      /\ Len(with_followers.rows) = Len(with_comparison.rows)
      /\ \A i \in DOMAIN with_followers.rows :
            LET entries == RowsOf(follower_df, cols.page_col,
                                  with_followers.rows[i][cols.page_col])
            IN Cardinality(entries) > 1 =>
                  with_followers.rows[i]["followers"]
                     = NumericOrZero(follower_df.rows[MinOf(entries)][cols.follower_col])

\* The pages of the performance dataset.
CurrentPages == {performance_df[i].page : i \in DOMAIN performance_df}

\* C13: the pages of the result of aggregate_overall, and of the returned
\* leaderboard, are exactly the pages of the performance dataset; a page that
\* won no day is there with days_won = 0, and a page that only the prior or
\* the follower dataset lists is not.
C13_PageUniverse ==
    /\ StepsDone >= 4 =>
          /\ {overall.rows[i][cols.page_col] : i \in DOMAIN overall.rows} = CurrentPages
          /\ \A i \in DOMAIN overall.rows :
                (\A k \in DOMAIN daily_with_winners :
                    daily_with_winners[k].page = overall.rows[i][cols.page_col]
                       => daily_with_winners[k].day_won = 0)
                   => overall.rows[i]["days_won"] = 0
    /\ pc = "done" =>
          {leaderboard.rows[i]["Page/Profile/Channel"] : i \in DOMAIN leaderboard.rows}
             = CurrentPages

\* The prior and the follower dataset list page A, which did not post; of the
\* two pages that posted, one has no dated post and so no daily record.
C13_Witness ==
    /\ pc = "done"
    /\ CurrentPages = {PageAB, PageB}
    /\ previous_df.rows[1]["page"] = PageA
    /\ follower_df.rows[1]["page"] = PageA
    /\ \A i \in DOMAIN performance_df :
          performance_df[i].page = PageB => ~performance_df[i].date.ok
    /\ \E i \in DOMAIN leaderboard.rows :
          /\ leaderboard.rows[i]["Page/Profile/Channel"] = PageB
          /\ leaderboard.rows[i]["Day Won"] = 0
    /\ \E i \in DOMAIN leaderboard.rows :
          /\ leaderboard.rows[i]["Page/Profile/Channel"] = PageAB
          /\ leaderboard.rows[i]["Day Won"] = 1

\* C14: with every mapped column present in the three datasets,
\* create_leaderboard does not raise, whatever the cells hold.
C14_NeverRaises == pc # "raised"

\* Lists of field keys passed as allow_empty.
AllowSamples == {<<>>, <<"day_won", "rank">>, <<"rank">>, <<"likes", "followers">>}

\* E lists, once each and in the mapping's order, the field keys of m whose
\* column is '' and that are not in allow.
IsEmptyFieldList(E, m, allow) ==
    /\ Range(E) = {m[k][1] : k \in {i \in DOMAIN m : m[i][2] = "" /\ m[i][1] \notin Range(allow)}}
    /\ \A i, j \in DOMAIN E :
          i < j => \E a, b \in DOMAIN m : a < b /\ m[a][1] = E[i] /\ m[b][1] = E[j]

\* C15: validate_mapping returns the list of the field keys with an empty
\* column that are not in allow_empty, and valid exactly when the list is
\* empty; the mapping page reports the empty fields of each mapping; and
\* create_leaderboard is not running or finished with an unmapped field.
C15_ValidateMapping ==
    /\ \A d \in Slots : \A allow \in AllowSamples :
          /\ IsEmptyFieldList(validate_mapping(mappings[d], allow).empty_fields,
                              mappings[d], allow)
          /\ validate_mapping(mappings[d], allow).valid
                = (validate_mapping(mappings[d], allow).empty_fields = <<>>)
    /\ \A e \in Range(mapping_errors) :
          \E d \in Slots : e[2] # <<>> /\ IsEmptyFieldList(e[2], mappings[d], <<>>)
    /\ Len(mapping_errors)
          = Cardinality({d \in Slots : \E i \in DOMAIN mappings[d] : mappings[d][i][2] = ""})
    /\ pc # "idle" =>
          \A d \in Slots : \A i \in DOMAIN mappings[d] : mappings[d][i][2] # ""

\* The mapping page with the prior post count and rank unmapped: both are
\* reported, in the order of the fields, and the button is disabled.
C15_Witness ==
    /\ pc = "idle"
    /\ show_mapping
    /\ MapGet(mappings.previous, "post_count") = ""
    /\ MapGet(mappings.previous, "rank") = ""
    /\ MapGet(mappings.previous, "day_won") = "day_won"
    /\ mapping_errors = << <<"Last Fortnight", <<"post_count", "rank">> >> >>
    /\ ~GenerateEnabled

\* C16: on the mapping page, with every field mapped but the prior-period
\* day_won or rank, Generate Dashboard can be run.
C16_OptionalFieldsMayBeUnmapped ==
    (/\ pc = "idle"
     /\ all_uploaded
     /\ show_mapping
     /\ \A d \in Slots : \A i \in DOMAIN mappings[d] :
           mappings[d][i][2] = "" => (d = "previous" /\ mappings[d][i][1] \in {"day_won", "rank"}))
       => GenerateEnabled

\* C17: a step changes the stored leaderboard only when create_leaderboard
\* has returned, and then stores its result, or when Start Over on the
\* dashboard deletes it; the step that handles the exception of
\* create_leaderboard leaves the stored leaderboard as it was.
C17_FailedRunKeepsLeaderboard ==
    [][/\ pc = "raised" => session_leaderboard' = session_leaderboard
       /\ session_leaderboard' # session_leaderboard =>
             \/ pc = "done" /\ session_leaderboard' = leaderboard
             \/ DashboardDisplayed /\ session_leaderboard' = None]_vars

\* A leaderboard is stored from an earlier run, and create_leaderboard has
\* raised on the follower count 'x' after computing the comparison.
C17_Witness ==
    /\ pc = "raised"
    /\ session_leaderboard # None
    /\ Len(session_leaderboard.rows) >= 1
    /\ with_comparison # NoFrame
    /\ follower_df.rows[1]["followers"] = TextCell(<<120>>)

\* The dataset of a slot; Unstored when the slot is None.
Unstored == [slot |-> "None"]
SlotValue(slot, performance, previous, follower, stored_slots) ==
    IF slot \notin stored_slots THEN Unstored
    ELSE [slot |-> slot,
          df |-> CASE slot = "performance" -> performance
                   [] slot = "previous" -> previous
                   [] OTHER -> follower]

\* C18: load_excel_file does not raise, and returns None for a file whose
\* name ends neither in .xlsx nor in .xls or that cannot be read; a step
\* changes the dataset of a slot only by storing the workbook that a load for
\* this slot has returned, or by deleting it at Start Over.
C18_FailedLoadKeepsDataset ==
    /\ [](last_load # NoLoad =>
            /\ ~last_load.raised
            /\ (last_load.file.name \notin {NameXlsx, NameXls} \/ ~last_load.file.readable)
                  => ~last_load.returned)
    /\ [][\A slot \in Slots :
            SlotValue(slot, performance_df', previous_df', follower_df', stored')
               # SlotValue(slot, performance_df, previous_df, follower_df, stored)
            => \/ /\ last_load' # NoLoad
                  /\ last_load'.slot = slot
                  /\ last_load'.returned
                  /\ last_load'.file.readable
                  /\ SlotValue(slot, performance_df', previous_df', follower_df', stored')
                        = [slot |-> slot, df |-> last_load'.file.df]
               \/ /\ DashboardDisplayed
                  /\ SlotValue(slot, performance_df', previous_df', follower_df', stored')
                        = Unstored]_vars

\* A readable workbook named p.XLSX was uploaded over a stored performance
\* dataset of other content: nothing was returned and the dataset is kept.
C18_Witness ==
    /\ last_load.slot = "performance"
    /\ last_load.file.name = NameUpper
    /\ last_load.file.readable
    /\ ~last_load.returned
    /\ "performance" \in stored
    /\ Len(performance_df) # Len(last_load.file.df)

\* C19: the rows of a page whose date does not parse make one record of the
\* daily rollup, with a null date, the sum of their engagement and their number.
C19_NullDateBucket ==
    StepsDone >= 2 =>
      \A p \in CurrentPages :
         LET undated == SelectSeq(df_with_engagement,
                                  LAMBDA r : r.page = p /\ date_only(r.date) = NaT)
         IN undated # <<>> =>
               \E i \in DOMAIN daily_agg :
                  /\ daily_agg[i].page = p
                  /\ daily_agg[i].date = NaT
                  /\ daily_agg[i].total_engagement = SumSeq(Column(undated, "engagement"))
                  /\ daily_agg[i].post_count = Len(undated)

\* The values a page has in a column of the prior-period dataset.
PriorValues(page, column) ==
    {NumericOrZero(previous_df.rows[k][column]) :
        k \in RowsOf(previous_df, cols.page_col, page)}

\* C20: when the prior-period dataset has the mapped post count, engagement,
\* day won and rank columns, a page it lists has in last_fortnight_day_won
\* and last_fortnight_rank the page's prior day won and rank, after
\* add_comparison_data and in the returned leaderboard, whose current rank
\* column does not replace them.
C20_PriorPassThrough ==
    (/\ HasColumn(previous_df, cols.previous_posts_col)
     /\ HasColumn(previous_df, cols.previous_engagement_col)
     /\ HasColumn(previous_df, cols.previous_day_won_col)
     /\ HasColumn(previous_df, cols.previous_rank_col)) =>
      /\ StepsDone >= 5 =>
            \A i \in DOMAIN with_comparison.rows :
               LET page == with_comparison.rows[i][cols.page_col]
               IN RowsOf(previous_df, cols.page_col, page) # {} =>
                     /\ with_comparison.rows[i]["last_fortnight_day_won"]
                           \in PriorValues(page, cols.previous_day_won_col)
                     /\ with_comparison.rows[i]["last_fortnight_rank"]
                           \in PriorValues(page, cols.previous_rank_col)
      /\ pc = "done" =>
            \A i \in DOMAIN leaderboard.rows :
               LET page == leaderboard.rows[i]["Page/Profile/Channel"]
               IN RowsOf(previous_df, cols.page_col, page) # {} =>
                     /\ leaderboard.rows[i]["Last Fortnight Day Won"]
                           \in PriorValues(page, cols.previous_day_won_col)
                     /\ leaderboard.rows[i]["Last Fortnight Rank"]
                           \in PriorValues(page, cols.previous_rank_col)

\* The prior rank column is named 'rank'; page A, second before with 3 days
\* won, is first now, ahead of page B, which has no prior record.
C20_Witness ==
    /\ pc = "done"
    /\ cols.previous_rank_col = "rank"
    /\ Len(previous_df.rows) = 1
    /\ previous_df.rows[1]["page"] = PageA
    /\ Len(leaderboard.rows) = 2
    /\ leaderboard.rows[1]["Page/Profile/Channel"] = PageA
    /\ leaderboard.rows[1]["Rank"] = 1
    /\ leaderboard.rows[1]["Last Fortnight Rank"] = 2
    /\ leaderboard.rows[1]["Last Fortnight Day Won"] = 3
    /\ leaderboard.rows[2]["Last Fortnight Rank"] = 0

\* C21: when the prior-period dataset has the mapped post count and
\* engagement columns, every page of the current result is in the comparison
\* result; a page without a prior record has 0 in the two percentage changes
\* and in last_fortnight_day_won and last_fortnight_rank, and a page with a
\* prior record has the percentage changes of its total_posts against the
\* prior post count and of its total_engagement against the prior engagement.
C21_ComparisonLeftJoin ==
    (/\ StepsDone >= 5
     /\ HasColumn(previous_df, cols.previous_posts_col)
     /\ HasColumn(previous_df, cols.previous_engagement_col)) =>
      \A i \in DOMAIN overall.rows :
         LET page == overall.rows[i][cols.page_col]
             prior == RowsOf(previous_df, cols.page_col, page)
             out == RowsOf(with_comparison, cols.page_col, page)
         IN /\ out # {}
            /\ \A k \in out :
                  /\ with_comparison.rows[k]["total_posts"] = overall.rows[i]["total_posts"]
                  /\ with_comparison.rows[k]["total_engagement"]
                        = overall.rows[i]["total_engagement"]
            /\ prior = {} =>
                  /\ Cardinality(out) = 1
                  /\ \A k \in out :
                        /\ with_comparison.rows[k]["posts_change_pct"] = PctZero
                        /\ with_comparison.rows[k]["engagement_change_pct"] = PctZero
                        /\ with_comparison.rows[k]["last_fortnight_day_won"] = 0
                        /\ with_comparison.rows[k]["last_fortnight_rank"] = 0
            /\ prior # {} =>
                  /\ Cardinality(out) = Cardinality(prior)
                  /\ \A k \in out : \E e \in prior :
                        /\ IsPercentageChange(with_comparison.rows[k]["posts_change_pct"],
                               overall.rows[i]["total_posts"],
                               previous_df.rows[e][cols.previous_posts_col])
                        /\ IsPercentageChange(with_comparison.rows[k]["engagement_change_pct"],
                               overall.rows[i]["total_engagement"],
                               previous_df.rows[e][cols.previous_engagement_col])

\* Page A has a prior record with all four columns (2 posts, engagement 100),
\* page B has none.
C21_Witness ==
    /\ pc = "add_follower_data"
    /\ previous_df.columns = FullPreviousColumns
    /\ Len(previous_df.rows) = 1
    /\ previous_df.rows[1]["page"] = PageA
    /\ previous_df.rows[1]["post_count"] = NumCell(2)
    /\ Len(with_comparison.rows) = 2
    /\ with_comparison.rows[1]["page"] = PageA
    /\ with_comparison.rows[1]["total_engagement"] = 50
    /\ with_comparison.rows[1]["engagement_change_pct"] = [num |-> -50, den |-> 1]
    /\ with_comparison.rows[1]["posts_change_pct"] = [num |-> -50, den |-> 1]
    /\ with_comparison.rows[2]["page"] = PageB
    /\ with_comparison.rows[2]["engagement_change_pct"] = PctZero
    /\ with_comparison.rows[2]["last_fortnight_rank"] = 0

\* The scored rows of a page on a calendar day.
ScoredOn(p, d) == SelectSeq(df_with_engagement, LAMBDA r : r.page = p /\ date_only(r.date) = d)

\* C22: the daily rollup has exactly one record for every pair of a page and
\* a calendar day that a scored row has, whatever the time of day, and none
\* for another pair; the record holds the sum of the engagement and the
\* number of the rows of the pair.
C22_DailyRollup ==
    StepsDone >= 2 =>
      /\ \A i \in DOMAIN df_with_engagement :
            date_only(df_with_engagement[i].date) # NaT =>
               Cardinality({k \in DOMAIN daily_agg :
                               /\ daily_agg[k].page = df_with_engagement[i].page
                               /\ daily_agg[k].date = date_only(df_with_engagement[i].date)}) = 1
      /\ \A k \in DOMAIN daily_agg :
            /\ daily_agg[k].date # NaT
            /\ ScoredOn(daily_agg[k].page, daily_agg[k].date) # <<>>
            /\ daily_agg[k].total_engagement
                  = SumSeq(Column(ScoredOn(daily_agg[k].page, daily_agg[k].date), "engagement"))
            /\ daily_agg[k].post_count = Len(ScoredOn(daily_agg[k].page, daily_agg[k].date))

\* A page posted twice on day 1, at two times of day, and once on day 2.
C22_Witness ==
    /\ pc = "identify_daily_winners"
    /\ Len(df_with_engagement) = 3
    /\ \A i \in DOMAIN performance_df : performance_df[i].page = PageAB
    /\ performance_df[1].date = DateCell(1, 1)
    /\ performance_df[2].date = DateCell(2, 0)
    /\ performance_df[3].date = DateCell(1, 0)
    /\ Len(daily_agg) = 2
    /\ daily_agg[1].post_count = 2
    /\ daily_agg[1].total_engagement = 3

\* C24: for every page of the result of aggregate_overall, total_engagement
\* is the sum of total_engagement, and total_posts the sum of post_count, over
\* the page's records of the daily rollup.
C24_OverallMatchesDaily ==
    StepsDone >= 4 =>
      \A i \in DOMAIN overall.rows :
         LET days == SelectSeq(daily_agg,
                               LAMBDA r : r.page = overall.rows[i][cols.page_col])
         IN /\ overall.rows[i]["total_engagement"] = SumSeq(Column(days, "total_engagement"))
            /\ overall.rows[i]["total_posts"] = SumSeq(Column(days, "post_count"))

\* C23: no step of create_leaderboard changes the performance, the
\* prior-period or the follower dataset it was called with, whether the call
\* returns or raises.
C23_NonDestructive ==
    [][/\ performance_df' = performance_df
       /\ previous_df' = previous_df
       /\ follower_df' = follower_df]_vars

\* The call has raised in add_follower_data; the likes cell of the caller's
\* dataset still holds its text, which the scored copy has as 0, and the
\* follower dataset still holds the text that made the call raise.
C23_Witness ==
    /\ pc = "raised"
    /\ with_comparison # NoFrame
    /\ performance_df[1].likes = TextCell(<<120>>)
    /\ df_with_engagement[1].likes = 0
    /\ df_with_engagement[1].engagement = 6
    /\ follower_df = TextFollowers

\* C25: a leaderboard that create_leaderboard returns has the ten display
\* columns, in their fixed order, whatever the columns of the prior-period
\* dataset are named.
C25_TenColumns ==
    pc = "done" =>
      leaderboard.columns
         = <<"Follower", "Page/Profile/Channel", "Post", "Engagement", "Rank", "Day Won",
             "% Change in Post", "% Change in Engagement", "Last Fortnight Day Won",
             "Last Fortnight Rank">>

\* C26: when the prior-period or the follower dataset names its page column
\* otherwise than the performance dataset, and every field is mapped to the
\* dataset's own column, create_leaderboard does not raise.
C26_JoinOnOwnPageColumn ==
    (/\ \/ MapGet(mappings.previous, "page_name") # MapGet(mappings.performance, "page_name")
        \/ MapGet(mappings.follower, "page_name") # MapGet(mappings.performance, "page_name")
     /\ HasColumn(previous_df, MapGet(mappings.previous, "page_name"))
     /\ HasColumn(follower_df, MapGet(mappings.follower, "page_name"))
     /\ \A d \in {"previous", "follower"} : \A i \in DOMAIN mappings[d] :
           mappings[d][i][1] # "page_name"
              => mappings[d][i][2] = auto_detect_column(mappings[d][i][1]))
       => pc # "raised"

\* C27: whenever the dashboard is displayed, the stored leaderboard is one
\* that create_leaderboard returns for the three datasets stored in the
\* session state, with the column names of the run that stored it.
C27_DisplayedLeaderboardIsCurrent ==
    DashboardDisplayed =>
       session_leaderboard \in create_leaderboard(performance_df, previous_df, follower_df, cols)

\* What create_leaderboard returns step by step is what it returns as one function.
ReturnedIsComposition ==
    pc = "done" => leaderboard \in create_leaderboard(performance_df, previous_df, follower_df, cols)

====
